---- MODULE Spec2Model ----
(***************************************************************************)
(* A model of FiniteElemNL (src/src/FiniteElemNL.cpp): the load-vector     *)
(* assembly (calcRHS, accumArray), the scalar Newton search (NWTsolve1D),  *)
(* the forward and backward nonlinear Gauss-Seidel sweeps (GSsolve,        *)
(* GSsolveb), the global Newton solver (NWTsolve) and the constructor that *)
(* drives them.                                                            *)
(*                                                                         *)
(* Numbers.  A C++ double is modelled by a narrow format with the same     *)
(* shape as IEEE 754: the integers of magnitude at most MaxVal, the two    *)
(* infinities and NaN.  Results are rounded to the nearest value of the    *)
(* format (ties to even), overflow gives an infinity, and the invalid      *)
(* operations (Inf - Inf, 0 * Inf, 0 / 0, Inf / Inf) give NaN.  An ordered *)
(* comparison with NaN is false.  arma::uword is an unsigned integer of    *)
(* UWordBits bits (32 or 64 in a build); arithmetic on it wraps.           *)
(***************************************************************************)
EXTENDS Integers, Sequences, FiniteSets, TLC

\* pc: where the program is.  armaChecks: whether the build keeps Armadillo's
\* bounds checks (the default) or drops them (ARMA_NO_DEBUG).
\* fun .. k: the constructor's parameter fun, the members mesh, pde, bdfun,
\* pdenl and u, and the constructor's locals b, fu, residual, r, tol, err, k.
\* gs, nw, newton, acc, rhs: the parameters (passed by value) and locals of
\* the running call of GSsolve or GSsolveb, NWTsolve, NWTsolve1D, accumArray
\* and calcRHS.
VARIABLES pc, armaChecks, fun, mesh, pde, bdfun, pdenl, u, b, fu, residual, r,
          tol, err, k, gs, nw, newton, acc, rhs

vars == <<pc, armaChecks, fun, mesh, pde, bdfun, pdenl, u, b, fu, residual, r,
          tol, err, k, gs, nw, newton, acc, rhs>>

members == <<armaChecks, fun, mesh, pde, bdfun, pdenl, u>>
ctorLocals == <<b, fu, residual, r, tol, err, k>>
driverVars == <<members, ctorLocals>>
sweepVars == <<gs, nw>>

\* The value of a variable that the running operation does not own.
None == <<>>

(***************************************************************************)
(* Bounds of the model.                                                    *)
(***************************************************************************)
\* Largest finite magnitude of the number format.
MaxVal == 100
\* Width of arma::uword in bits.
UWordBits == 3
\* Longest key/value list handed to accumArray, and its largest target size.
MaxLen == 3
MaxN == 3
\* Largest iteration budget handed to NWTsolve1D when it is called on its own.
MaxItr == 3
\* The most updates of one node in one sweep that the model tells apart.
CountCap == 2

(***************************************************************************)
(* double                                                                  *)
(***************************************************************************)
PInf == MaxVal + 1
NInf == -(MaxVal + 1)
NaN == MaxVal + 2
Finite == (-MaxVal)..MaxVal
Dbl == Finite \cup {PInf, NInf, NaN}

IsFinite(x) == x \in Finite
IsInf(x) == x = PInf \/ x = NInf

\* The exact integer n as a double: overflow gives an infinity.
Sat(n) == IF n > MaxVal THEN PInf ELSE IF n < -MaxVal THEN NInf ELSE n

Sgn(x) == IF x > 0 THEN 1 ELSE IF x < 0 THEN -1 ELSE 0

\* The operations below bind each operand once, as the machine evaluates an
\* operand once before it operates.
Neg(x) == CHOOSE z \in {IF a = NaN THEN NaN ELSE -a : a \in {x}} : TRUE

Plus(x, y) ==
    IF x = NaN \/ y = NaN THEN NaN
    ELSE IF IsInf(x) THEN (IF y = -x THEN NaN ELSE x)
    ELSE IF IsInf(y) THEN y
    ELSE Sat(x + y)

Add(x, y) == CHOOSE z \in {Plus(a, c) : a \in {x}, c \in {y}} : TRUE

Sub(x, y) == Add(x, Neg(y))

Times(x, y) ==
    IF x = NaN \/ y = NaN THEN NaN
    ELSE IF IsInf(x) \/ IsInf(y)
         THEN (IF x = 0 \/ y = 0 THEN NaN
               ELSE IF Sgn(x) * Sgn(y) > 0 THEN PInf ELSE NInf)
    ELSE Sat(x * y)

Mul(x, y) == CHOOSE z \in {Times(a, c) : a \in {x}, c \in {y}} : TRUE

\* n / d for integers n and d > 0, rounded to the nearest integer, ties to even.
RoundPos(n, d) ==
    LET q == n \div d
        m == n - q * d
    IN  IF 2 * m < d THEN q
        ELSE IF 2 * m > d THEN q + 1
        ELSE IF q % 2 = 0 THEN q ELSE q + 1

RoundDiv(n, d) == IF d > 0 THEN RoundPos(n, d) ELSE RoundPos(-n, -d)

Over(x, y) ==
    IF x = NaN \/ y = NaN THEN NaN
    ELSE IF IsInf(x)
         THEN (IF IsInf(y) THEN NaN
               ELSE IF Sgn(x) * (IF y < 0 THEN -1 ELSE 1) > 0 THEN PInf ELSE NInf)
    ELSE IF IsInf(y) THEN 0
    ELSE IF y = 0 THEN (IF x = 0 THEN NaN ELSE IF x > 0 THEN PInf ELSE NInf)
    ELSE Sat(RoundDiv(x, y))

Div(x, y) == CHOOSE z \in {Over(a, c) : a \in {x}, c \in {y}} : TRUE

Abs(x) ==
    CHOOSE z \in {IF a = NaN THEN NaN ELSE IF a < 0 THEN -a ELSE a : a \in {x}} : TRUE

\* x > y on doubles: false when either is NaN.
Gt(x, y) == \E a \in {x}, c \in {y} : a # NaN /\ c # NaN /\ a > c

(***************************************************************************)
(* arma vectors: vec and uvec are sequences here, element i of the code    *)
(* at position i + 1.  At(v, i) is v(i).                                   *)
(***************************************************************************)
At(v, j) == v[j + 1]

zeros(n) == [j \in 1..n |-> 0]

\* find(v == x): the indices of the elements equal to x, in increasing order.
RECURSIVE find(_, _, _)
find(v, x, from) ==
    IF from > Len(v) THEN <<>>
    ELSE IF v[from] = x THEN <<from - 1>> \o find(v, x, from + 1)
    ELSE find(v, x, from + 1)

\* v.elem(q): the elements of v at the indices q.
elem(v, q) == [j \in 1..Len(q) |-> At(v, q[j])]

\* sum(v), accumulated from the first element on.
RECURSIVE sum(_)
sum(v) == IF v = <<>> THEN 0 ELSE Add(sum(SubSeq(v, 1, Len(v) - 1)), v[Len(v)])

(***************************************************************************)
(* Tolerances.  The literal 1e-6 is below the resolution of the number     *)
(* format, so a tolerance is kept as the exact fraction num / den.         *)
(***************************************************************************)
TolInv == 1000000
Tol1em6 == <<1, TolInv>>

\* err > tol, for a double err and a tolerance tol = <<num, den>>.
GtTol(e, t) == e # NaN /\ (e = PInf \/ (e # NInf /\ e * t[2] > t[1]))

(***************************************************************************)
(* The function evaluators (FunZeros.h, FunOnes.h, FunSC.h, FunSCNL.h,     *)
(* FunSCbD.h, FunBoltz.h).  Their sources are not in the repository's      *)
(* files; each is modelled from its description: a zero source, a unit     *)
(* source, a source that varies over the domain, a boundary evaluator and  *)
(* a nonlinear reaction term with its derivative.                          *)
(***************************************************************************)
Cube(x) == Mul(Mul(x, x), x)

\* evalF of a source or boundary evaluator at the point p = <<x, y>>.
EvalPoint(kind, p) ==
    CASE kind = "FunZeros" -> 0
      [] kind = "FunOnes"  -> 1
      [] kind = "FunSC"    -> Add(p[1], Mul(2, p[2]))
      [] kind = "FunSCbD"  -> Sub(p[1], p[2])
      [] kind = "FunBoltz" -> Add(p[1], p[2])

\* evalF and evalDF of the reaction term at the scalar x.
EvalNL(kind, x) ==
    CASE kind = "FunSCNL"  -> Cube(x)
      [] kind = "FunZeros" -> 0

EvalDNL(kind, x) ==
    CASE kind = "FunSCNL"  -> Mul(3, Mul(x, x))
      [] kind = "FunZeros" -> 0

\* FunSCNL1D(pars): the scalar problem of one node,
\* pars[0] + pars[1] * x + pars[2] * f(x), and its derivative.
evalF1D(p, x) == Add(Add(p[1], Mul(p[2], x)), Mul(p[3], EvalNL("FunSCNL", x)))

evalDF1D(p, x) == Add(p[2], Mul(p[3], EvalDNL("FunSCNL", x)))

(***************************************************************************)
(* NWTsolve1D (lines 222-237)                                              *)
(***************************************************************************)
\* Lines 223-228: the locals before the loop.
NewtonEntry(f, x0) ==
    LET fp == evalF1D(f, x0)
    IN  [fp |-> fp, df |-> evalDF1D(f, x0), n |-> 0, err |-> Abs(fp), x |-> x0]

\* Line 229: the loop test.
NewtonCond(s, t, maxitr) == GtTol(s.err, t) /\ s.n < maxitr

\* Lines 230-234: the loop body.
NewtonBody(f, s) ==
    LET x == Sub(s.x, Div(s.fp, s.df))
        fp == evalF1D(f, x)
    IN  [fp |-> fp, df |-> evalDF1D(f, x), n |-> s.n + 1, err |-> Abs(fp), x |-> x]

\* Lines 229-235: the loop.  Each pass works on the values the pass before
\* it left in the locals.
RECURSIVE NewtonLoop(_, _, _, _)
NewtonLoop(f, s, t, maxitr) ==
    IF NewtonCond(s, t, maxitr)
    THEN CHOOSE out \in {NewtonLoop(f, nxt, t, maxitr) : nxt \in {NewtonBody(f, s)}} : TRUE
    ELSE s

NWTsolve1D(f, x0, t, maxitr) ==
    CHOOSE x \in {NewtonLoop(f, s, t, maxitr).x : s \in {NewtonEntry(f, x0)}} : TRUE

\* One call of NWTsolve1D, stepped through its loop.  xs lists the iterates
\* computed so far, x0 first.
NewtonPars == {<<c, a, m>> : c \in -3..3, a \in 0..2, m \in 0..1}
NewtonTols == {Tol1em6, <<2, 1>>}

NewtonInit ==
    /\ pc = "NWTsolve1D"
    /\ \E f \in NewtonPars : \E x0 \in -2..2 : \E t \in NewtonTols :
         \E maxitr \in 0..MaxItr :
           newton = [f |-> f, x0 |-> x0, tol |-> t, maxitr |-> maxitr,
                     s |-> NewtonEntry(f, x0), xs |-> <<x0>>, ret |-> None]
    /\ armaChecks = TRUE
    /\ fun = None /\ mesh = None /\ pde = None /\ bdfun = None /\ pdenl = None
    /\ u = None /\ b = None /\ fu = None /\ residual = None /\ r = None
    /\ tol = None /\ err = None /\ k = 0
    /\ gs = None /\ nw = None /\ acc = None /\ rhs = None

NewtonIter ==
    /\ pc = "NWTsolve1D"
    /\ NewtonCond(newton.s, newton.tol, newton.maxitr)
    /\ LET s == NewtonBody(newton.f, newton.s)
       IN  newton' = [newton EXCEPT !.s = s, !.xs = Append(newton.xs, s.x)]
    /\ UNCHANGED <<pc, driverVars, sweepVars, acc, rhs>>

NewtonReturn ==
    /\ pc = "NWTsolve1D"
    /\ ~NewtonCond(newton.s, newton.tol, newton.maxitr)
    /\ pc' = "NWTsolve1DDone"
    /\ newton' = [newton EXCEPT !.ret = newton.s.x]
    /\ UNCHANGED <<driverVars, sweepVars, acc, rhs>>

NewtonNext == NewtonIter \/ NewtonReturn

NewtonSpec == NewtonInit /\ [][NewtonNext]_vars

\* |f(x)| <= tol: the tolerance is met at x.
Met(f, x, t) ==
    LET a == Abs(evalF1D(f, x)) IN a # NaN /\ ~GtTol(a, t)

\* f(x) is not a number: no comparison with it is true.
Unordered(f, x) == evalF1D(f, x) = NaN

\* The checks of C9 that hold of every call.
C9_Common ==
    /\ Len(newton.xs) - 1 <= newton.maxitr
    /\ newton.ret = newton.xs[Len(newton.xs)]
    /\ newton.xs[1] = newton.x0
    /\ Met(newton.f, newton.x0, newton.tol) =>
          (Len(newton.xs) = 1 /\ newton.ret = newton.x0)
    /\ \A j \in 1..(Len(newton.xs) - 1) :
          /\ ~Met(newton.f, newton.xs[j], newton.tol)
          /\ newton.xs[j + 1] =
                Sub(newton.xs[j], Div(evalF1D(newton.f, newton.xs[j]),
                                      evalDF1D(newton.f, newton.xs[j])))

(***************************************************************************)
(* C9.  NWTsolve1D applies the update at most maxitr times, not at all     *)
(* when |f(x0)| <= tol, stops at the first iterate that meets the          *)
(* tolerance, and returns the last iterate, which either meets the         *)
(* tolerance or is the maxitr-th iterate.                                  *)
(***************************************************************************)
C9_AsClaimed ==
    pc = "NWTsolve1DDone" =>
        /\ C9_Common
        /\ \/ Met(newton.f, newton.ret, newton.tol)
           \/ Len(newton.xs) - 1 = newton.maxitr

\* What does hold of every call: the search also stops at an iterate x
\* whose f(x) is NaN (a zero derivative or an overflow on the way), within
\* the budget and short of the tolerance.
C9_NewtonReturn ==
    pc = "NWTsolve1DDone" =>
        /\ C9_Common
        /\ \/ Met(newton.f, newton.ret, newton.tol)
           \/ Len(newton.xs) - 1 = newton.maxitr
           \/ Unordered(newton.f, newton.ret)

\* A call that used its whole budget of at least two updates without meeting
\* the tolerance.
C9_Witness ==
    /\ pc = "NWTsolve1DDone"
    /\ newton.maxitr >= 2
    /\ Len(newton.xs) - 1 = newton.maxitr
    /\ ~Met(newton.f, newton.ret, newton.tol)
    /\ ~Unordered(newton.f, newton.ret)

\* A call that stopped early on meeting the tolerance after an update.
C9_WitnessConverged ==
    /\ pc = "NWTsolve1DDone"
    /\ Len(newton.xs) - 1 \in 1..(newton.maxitr - 1)
    /\ Met(newton.f, newton.ret, newton.tol)


(***************************************************************************)
(* accumArray (lines 125-148)                                              *)
(***************************************************************************)
\* A broken body of the loop: only the first element found is taken.
AccumBodyFirstOnly(subs, ar, S, j) ==
    LET q1 == find(subs, j, 1)
    IN  IF q1 # <<>> THEN [S EXCEPT ![j + 1] = At(ar, q1[1])]
        ELSE [S EXCEPT ![j + 1] = 0]

\* One pass of the loop body, for index j: S with S(j) set.
AccumBody(subs, ar, S, j) ==
    LET q1 == find(subs, j, 1)
    IN  IF q1 # <<>>
        THEN LET spot == elem(ar, q1)
                 thesum == sum(spot)
             IN  [S EXCEPT ![j + 1] = thesum]
        ELSE [S EXCEPT ![j + 1] = 0]

RECURSIVE AccumLoop(_, _, _, _, _)
AccumLoop(subs, ar, N, S, j) ==
    IF j < N THEN AccumLoop(subs, ar, N, AccumBody(subs, ar, S, j), j + 1) ELSE S

accumArray(subs, ar, N) == AccumLoop(subs, ar, N, zeros(N), 0)

\* The state of one call of accumArray, stepped through its loop: line 127,
\* with the arguments as they were passed kept in args.
AccumEntry(subs, ar, N) ==
    [subs |-> subs, ar |-> ar, N |-> N, S |-> zeros(N), i |-> 0,
     args |-> <<subs, ar, N>>]

AccVals == {-1, 2, MaxVal}

SeqsUpTo(S, n) == UNION {[1..m -> S] : m \in 0..n}

AccumInit ==
    /\ pc = "accumArray"
    /\ \E N \in 0..MaxN : \E m \in 0..MaxLen :
         \E subs \in [1..m -> 0..(N - 1)] : \E ar \in [1..m -> AccVals] :
           acc = AccumEntry(subs, ar, N)
    /\ armaChecks = TRUE
    /\ fun = None /\ mesh = None /\ pde = None /\ bdfun = None /\ pdenl = None
    /\ u = None /\ b = None /\ fu = None /\ residual = None /\ r = None
    /\ tol = None /\ err = None /\ k = 0
    /\ gs = None /\ nw = None /\ newton = None /\ rhs = None

AccumIter ==
    /\ pc = "accumArray"
    /\ acc.i < acc.N
    /\ acc' = [acc EXCEPT !.S = AccumBody(acc.subs, acc.ar, acc.S, acc.i),
                          !.i = acc.i + 1]
    /\ UNCHANGED <<pc, driverVars, sweepVars, newton, rhs>>

AccumReturn ==
    /\ pc = "accumArray"
    /\ ~(acc.i < acc.N)
    /\ pc' = IF rhs = None THEN "accumArrayDone" ELSE "calcRHSret"
    /\ UNCHANGED <<acc, driverVars, sweepVars, newton, rhs>>

AccumNext == AccumIter \/ AccumReturn

AccumSpec == AccumInit /\ [][AccumNext]_vars

(***************************************************************************)
(* C3.  accumArray returns a vector of length N whose entry i is the sum   *)
(* of exactly the values whose key is i (0 when no key is i); equal keys   *)
(* add up; the key and value lists are left as they were passed.           *)
(* The sum is stated the other way round from the code: one pass over the  *)
(* key list that adds each value to the entry its key names.               *)
(***************************************************************************)
RECURSIVE ScatterAdd(_, _, _, _)
ScatterAdd(keys, vals, S, p) ==
    IF p > Len(keys) THEN S
    ELSE ScatterAdd(keys, vals,
                    [S EXCEPT ![keys[p] + 1] = Add(S[keys[p] + 1], vals[p])], p + 1)

C3_ScatterAccumulate ==
    pc = "accumArrayDone" =>
        /\ Len(acc.S) = acc.N
        /\ acc.S = ScatterAdd(acc.subs, acc.ar, zeros(acc.N), 1)
        /\ \A j \in 0..(acc.N - 1) :
             (\A p \in 1..Len(acc.subs) : acc.subs[p] # j) => At(acc.S, j) = 0
        /\ <<acc.subs, acc.ar, acc.N>> = acc.args

\* A finished call with a key that occurs twice and a target no key names.
C3_Witness ==
    /\ pc = "accumArrayDone"
    /\ \E p, q \in 1..Len(acc.subs) : p < q /\ acc.subs[p] = acc.subs[q]
    /\ \E j \in 0..(acc.N - 1) : \A p \in 1..Len(acc.subs) : acc.subs[p] # j

(***************************************************************************)
(* The mesh (MeshMG.h, not in the repository's files): node coordinates,   *)
(* element connectivity, element areas, stiffness and mass matrices and    *)
(* the free and boundary node index sets, which partition the nodes.       *)
(***************************************************************************)
\* The subsequence of 0..(n - 1), in increasing order, of the indices in S.
RECURSIVE Ascending(_, _)
Ascending(S, n) ==
    IF n = 0 THEN <<>>
    ELSE IF (n - 1) \in S THEN Append(Ascending(S, n - 1), n - 1)
    ELSE Ascending(S, n - 1)

Range(v) == {v[j] : j \in DOMAIN v}

\* The stiffness matrix with d on the diagonal and o beside it.
Banded(n, d, o) ==
    [row \in 1..n |-> [col \in 1..n |->
        IF row = col THEN d ELSE IF row - col \in {-1, 1} THEN o ELSE 0]]

Diagonal(n, m) == [row \in 1..n |-> [col \in 1..n |-> IF row = col THEN m ELSE 0]]

Geometry ==
    { [node |-> <<<<0, 0>>, <<2, 0>>, <<0, 2>>>>,
       elem |-> <<<<0, 1, 2>>>>, area |-> <<2>>],
      [node |-> <<<<0, 0>>, <<2, 0>>, <<0, 2>>>>,
       elem |-> <<<<2, 0, 1>>>>, area |-> <<3>>],
      [node |-> <<<<0, 0>>, <<2, 0>>, <<0, 2>>, <<2, 2>>>>,
       elem |-> <<<<0, 1, 2>>, <<1, 3, 2>>>>, area |-> <<2, 2>>],
      [node |-> <<<<0, 0>>, <<4, 0>>, <<0, 2>>, <<4, 2>>>>,
       elem |-> <<<<0, 1, 2>>, <<3, 2, 1>>>>, area |-> <<3, 1>>] }

Stiffnesses == {<<2, -1>>, <<1, 1>>}
Masses == {0, 1}

MeshesOn(g) ==
    { [node |-> g.node, elem |-> g.elem, area |-> g.area,
       stiffness |-> Banded(Len(g.node), a[1], a[2]),
       mass |-> Diagonal(Len(g.node), m),
       freeNode |-> Ascending(F, Len(g.node)),
       bdNode |-> Ascending((0..(Len(g.node) - 1)) \ F, Len(g.node))] :
      a \in Stiffnesses, m \in Masses, F \in SUBSET (0..(Len(g.node) - 1)) }

Meshes == UNION {MeshesOn(g) : g \in Geometry}

(***************************************************************************)
(* arma matrices: a mat is the sequence of its rows.                       *)
(***************************************************************************)
\* m.col(c)
col(m, c) == [t \in 1..Len(m) |-> m[t][c + 1]]

\* m.rows(idx): the rows of m at the indices idx.
rows(m, idx) == [t \in 1..Len(idx) |-> At(m, idx[t])]

\* (m1 + m2) / 2.0, element by element.
halfSum(m1, m2) ==
    [t \in 1..Len(m1) |-> [c \in 1..Len(m1[t]) |-> Div(Add(m1[t][c], m2[t][c]), 2)]]

\* vectorise(m): the columns of m one after the other.
RECURSIVE vectoriseFrom(_, _)
vectoriseFrom(m, c) ==
    IF m = <<>> \/ c >= Len(m[1]) THEN <<>> ELSE col(m, c) \o vectoriseFrom(m, c + 1)

\* A broken flattening: the rows of m one after the other.
RECURSIVE vectoriseRowMajor(_)
vectoriseRowMajor(m) == IF m = <<>> THEN <<>> ELSE m[1] \o vectoriseRowMajor(Tail(m))

vectorise(m) == vectoriseFrom(m, 0)

\* pde->evalF(pts): the evaluator at every row of pts.
evalF(kind, pts) == [t \in 1..Len(pts) |-> EvalPoint(kind, pts[t])]

\* (area % (f1 + f2)) / 6.0
weighted(area, f1, f2) ==
    [t \in 1..Len(area) |-> Div(Mul(area[t], Add(f1[t], f2[t])), 6)]

(***************************************************************************)
(* arma::uword, spans and products                                         *)
(***************************************************************************)
UWordMod == 2 ^ UWordBits
UW(n) == n % UWordMod

\* The bounds check of cols(span(a, c)) and rows(span(a, c)) on n elements.
SpanOK(a, c, n) == a <= c /\ c < n

\* The number of elements of span(a, c), as the subview computes it.
SpanLen(a, c) == UW(c - a + 1)

\* The product of len elements of the row vector row with the same elements
\* of the column vector v, from index from on.
RECURSIVE dot(_, _, _, _)
dot(row, v, from, len) ==
    IF len = 0 THEN 0
    ELSE Add(dot(row, v, from, len - 1),
             Mul(At(row, from + len - 1), At(v, from + len - 1)))

\* A * v
matVec(A, v) == [j \in 1..Len(A) |-> dot(A[j], v, 0, Len(v))]

\* M.diag()
diag(M) == [j \in 1..Len(M) |-> M[j][j]]

\* pdenl->evalF(v) and pdenl->evalDF(v), element by element.
evalFv(kind, v) == [j \in 1..Len(v) |-> EvalNL(kind, v[j])]
evalDFv(kind, v) == [j \in 1..Len(v) |-> EvalDNL(kind, v[j])]

\* (A * u) + (M % fu) - b
residualOf(A, uu, M, fuu, bb) ==
    LET Au == matVec(A, uu)
    IN  [j \in 1..Len(uu) |-> Sub(Add(Au[j], Mul(M[j], fuu[j])), bb[j])]

\* norm(v): the 2-norm, kept as its kind and its exact square.
RECURSIVE sumSq(_)
sumSq(v) == IF v = <<>> THEN 0 ELSE sumSq(Tail(v)) + v[1] * v[1]

norm(v) ==
    IF \E j \in DOMAIN v : v[j] = NaN THEN [kind |-> "nan", sq |-> 0]
    ELSE IF \E j \in DOMAIN v : IsInf(v[j]) THEN [kind |-> "inf", sq |-> 0]
    ELSE [kind |-> "fin", sq |-> sumSq(v)]

\* A non-negative double of the form (num / den) * sqrt(sq), or Inf or NaN.
\* t * norm, for the tolerance t = <<num, den>>, num > 0.
timesNorm(t, nrm) == [kind |-> nrm.kind, num |-> t[1], den |-> t[2], sq |-> nrm.sq]

\* 2 * x
twice(x) == [x EXCEPT !.num = 2 * x.num]

\* norm as such a double.
asErr(nrm) == timesNorm(<<1, 1>>, nrm)

\* x > y.  The denominators are equal, or x has none and y has TolInv.
GtScaled(x, y) ==
    IF x.kind = "nan" \/ y.kind = "nan" THEN FALSE
    ELSE IF x.kind = "inf" THEN y.kind # "inf"
    ELSE IF y.kind = "inf" THEN FALSE
    ELSE LET X == x.num * x.num * x.sq
             Y == y.num * y.num * y.sq
         IN  IF x.den = y.den THEN X > Y
             ELSE X > (Y \div y.den) \div y.den

(***************************************************************************)
(* GSsolve (lines 179-199) and GSsolveb (lines 201-220)                    *)
(***************************************************************************)
\* A broken test: every index counts as free.
IsFreeAlways(freeNode, j) == TRUE

\* Lines 183-184 and 205-206: !find(freeNode == i).empty()
IsFree(freeNode, j) == find(freeNode, j, 1) # <<>>

\* Lines 186-187: the products over the columns before i and after i.
ForwardCurrA(g) ==
    LET Ar == At(g.A, g.i)
    IN  Add(dot(Ar, g.u, 0, SpanLen(0, UW(g.i - 1))),
            dot(Ar, g.u, UW(g.i + 1), SpanLen(UW(g.i + 1), UW(g.Nu - 1))))

\* Lines 208-209: the products over the columns before i and from i on.
BackwardCurrA(g) ==
    LET Ar == At(g.A, g.i)
    IN  Add(dot(Ar, g.u, 0, SpanLen(0, UW(g.i - 1))),
            dot(Ar, g.u, g.i, SpanLen(g.i, UW(g.Nu - 1))))

\* Whether the spans of the body pass Armadillo's bounds checks.
SpansOK(g) ==
    /\ SpanOK(0, UW(g.i - 1), g.Nu)
    /\ IF g.op = "GSsolve" THEN SpanOK(UW(g.i + 1), UW(g.Nu - 1), g.Nu)
       ELSE SpanOK(g.i, UW(g.Nu - 1), g.Nu)

NewtonBudget == 10

\* Lines 188-195 and 210-216: the scalar problem of node i and its solution,
\* written to u(i).  at, count and updated record the update.
SolveNode(g, cA) ==
    LET cI == Add(cA, At(g.b, g.i))
        p == <<cI, At(At(g.A, g.i), g.i), At(g.M, g.i)>>
        x == NWTsolve1D(p, At(g.u, g.i), Tol1em6, NewtonBudget)
        c == g.count[g.i + 1]
    IN  [g EXCEPT !.currA = cA, !.ci = cI, !.pars = p, !.u[g.i + 1] = x,
                  !.at = g.i,
                  !.count[g.i + 1] = IF c < CountCap THEN c + 1 ELSE c,
                  !.updated = IF c = 0 THEN Append(g.updated, g.i) ELSE g.updated]

\* The parameters and locals of a call; i is set by the loop's initialiser.
GsEntry(op, caller, bb, uu, M, A, freeNode) ==
    [op |-> op, caller |-> caller, b |-> bb, u |-> uu, M |-> M, A |-> A,
     freeNode |-> freeNode, Nu |-> Len(uu),
     i |-> IF op = "GSsolve" THEN 1 ELSE UW(Len(uu) - 2),
     currA |-> 0, ci |-> 0, pars |-> <<0, 0, 0>>,
     at |-> -1, count |-> [j \in 1..Len(uu) |-> 0], updated |-> <<>>,
     done |-> FALSE]

\* Line 182: the test of the forward loop.
ForwardCond(g) == g.i < UW(g.Nu - 1)

\* Line 204: the test of the backward loop, on an unsigned i.
BackwardCond(g) == g.i >= 0

\* One pass of the forward loop (lines 182-197).
GSsolveIter ==
    /\ pc = "GSsolve"
    /\ ForwardCond(gs)
    /\ IsFree(gs.freeNode, gs.i) /\ armaChecks => SpansOK(gs)
    /\ LET g == IF IsFree(gs.freeNode, gs.i) THEN SolveNode(gs, ForwardCurrA(gs))
                ELSE [gs EXCEPT !.at = -1]
       IN  gs' = [g EXCEPT !.i = UW(gs.i + 1)]
    /\ UNCHANGED <<pc, driverVars, nw, newton, acc, rhs>>

\* Line 198: return u, which the caller assigns to its u (line 72).
GSsolveReturn ==
    /\ pc = "GSsolve"
    /\ ~ForwardCond(gs)
    /\ gs' = [gs EXCEPT !.done = TRUE]
    /\ u' = gs.u
    /\ pc' = IF gs.caller = "ctor" THEN "ctorLine73" ELSE "idle"
    /\ UNCHANGED <<armaChecks, fun, mesh, pde, bdfun, pdenl, ctorLocals, nw,
                   newton, acc, rhs>>

\* One pass of the backward loop (lines 204-218).
GSsolvebIter ==
    /\ pc = "GSsolveb"
    /\ BackwardCond(gs)
    /\ IsFree(gs.freeNode, gs.i) /\ armaChecks => SpansOK(gs)
    /\ LET g == IF IsFree(gs.freeNode, gs.i) THEN SolveNode(gs, BackwardCurrA(gs))
                ELSE [gs EXCEPT !.at = -1]
       IN  gs' = [g EXCEPT !.i = UW(gs.i - 1)]
    /\ UNCHANGED <<pc, driverVars, nw, newton, acc, rhs>>

\* A span of the body fails Armadillo's bounds check: std::logic_error leaves
\* the sweep and its caller.
SpanThrow ==
    /\ pc \in {"GSsolve", "GSsolveb"}
    /\ IF pc = "GSsolve" THEN ForwardCond(gs) ELSE BackwardCond(gs)
    /\ IsFree(gs.freeNode, gs.i) /\ armaChecks /\ ~SpansOK(gs)
    /\ pc' = "threw"
    /\ UNCHANGED <<driverVars, gs, nw, newton, acc, rhs>>

\* Line 219: return u.  The test of line 204 is never false, so this is
\* never enabled (it never fires in FullSpec); it is no part of Next.
GSsolvebReturn ==
    /\ pc = "GSsolveb"
    /\ ~BackwardCond(gs)
    /\ gs' = [gs EXCEPT !.done = TRUE]
    /\ u' = gs.u
    /\ pc' = IF gs.caller = "ctor" THEN "ctorLine74" ELSE "idle"
    /\ UNCHANGED <<armaChecks, fun, mesh, pde, bdfun, pdenl, ctorLocals, nw,
                   newton, acc, rhs>>

(***************************************************************************)
(* solve(B, r) of Armadillo: the solution of B e = r, by Cramer's rule in  *)
(* exact arithmetic, rounded.  A singular B makes solve throw              *)
(* std::runtime_error; on entries that are not finite it throws or gives   *)
(* NaN.                                                                    *)
(***************************************************************************)
minor(m, c) ==
    [row \in 1..(Len(m) - 1) |-> [cc \in 1..(Len(m) - 1) |->
        m[row + 1][IF cc < c THEN cc ELSE cc + 1]]]

RECURSIVE det(_)
RECURSIVE detFrom(_, _)
detFrom(m, c) ==
    IF c > Len(m) THEN 0
    ELSE (IF c % 2 = 1 THEN 1 ELSE -1) * m[1][c] * det(minor(m, c)) + detFrom(m, c + 1)

det(m) == IF m = <<>> THEN 1 ELSE detFrom(m, 1)

withCol(m, c, v) ==
    [row \in 1..Len(m) |-> [cc \in 1..Len(m) |-> IF cc = c THEN v[row] ELSE m[row][cc]]]

AllFinite(m, v) ==
    /\ \A row \in DOMAIN m : \A cc \in DOMAIN m[row] : IsFinite(m[row][cc])
    /\ \A j \in DOMAIN v : IsFinite(v[j])

\* The outcomes of solve(B, r): ok with the solution e, or a throw.
solve(B, rr) ==
    IF ~AllFinite(B, rr)
    THEN {[ok |-> FALSE, e |-> <<>>], [ok |-> TRUE, e |-> [j \in DOMAIN rr |-> NaN]]}
    ELSE IF det(B) = 0 THEN {[ok |-> FALSE, e |-> <<>>]}
    ELSE {[ok |-> TRUE,
           e |-> [j \in DOMAIN rr |-> Sat(RoundDiv(det(withCol(B, j, rr)), det(B)))]]}

\* B.submat(idx, idx)
submat(B, idx) ==
    [row \in 1..Len(idx) |-> [cc \in 1..Len(idx) |-> At(At(B, idx[row]), idx[cc])]]

(***************************************************************************)
(* NWTsolve (lines 151-177)                                                *)
(***************************************************************************)
\* Lines 155-161: the locals before the loop.
NwEntry(kind, bb, uu, maxitr, M, A, t, freeNode) ==
    LET fuu == evalFv(kind, uu)
        res == residualOf(A, uu, M, fuu, bb)
        rr == rows(res, freeNode)
        tl == timesNorm(t, norm(rr))
    IN  [b |-> bb, u |-> uu, maxitr |-> maxitr, M |-> M, A |-> A,
         freeNode |-> freeNode, fu |-> fuu, residual |-> res, r |-> rr,
         k |-> 0, tol |-> tl, err |-> twice(tl)]

\* Line 162: the loop test.
NwCond(w) == w.k < w.maxitr /\ GtScaled(w.err, w.tol)

\* Lines 163-165: B = A + diagmat(M % evalDF(u)).
Jacobian(kind, w) ==
    LET Df == [j \in 1..Len(w.u) |-> Mul(w.M[j], evalDFv(kind, w.u)[j])]
    IN  [row \in 1..Len(w.A) |-> [cc \in 1..Len(w.A) |->
            IF row = cc THEN Add(w.A[row][cc], Df[row]) ELSE w.A[row][cc]]]

\* A broken update: the correction is written to the first nodes of u in
\* place of the free nodes.
CorrectedFirstRows(uu, idx, e) ==
    [j \in 1..Len(uu) |-> IF j <= Len(e) THEN Sub(uu[j], e[j]) ELSE uu[j]]

\* Line 167: u.rows(freeNode) = u.rows(freeNode) - e.
Corrected(uu, idx, e) ==
    [j \in 1..Len(uu) |->
        IF \E q \in 1..Len(idx) : idx[q] = j - 1
        THEN Sub(uu[j], e[CHOOSE q \in 1..Len(idx) : idx[q] = j - 1])
        ELSE uu[j]]

\* Lines 167-172, given the correction e.
NwStep(kind, w, e) ==
    LET uu == Corrected(w.u, w.freeNode, e)
        fuu == evalFv(kind, uu)
        res == residualOf(w.A, uu, w.M, fuu, w.b)
        rr == rows(res, w.freeNode)
    IN  [w EXCEPT !.u = uu, !.fu = fuu, !.residual = res, !.r = rr,
                  !.err = asErr(norm(rr)), !.k = w.k + 1]

NWTsolveIter ==
    /\ pc = "NWTsolve"
    /\ NwCond(nw)
    /\ \E o \in solve(submat(Jacobian(pdenl, nw), nw.freeNode), nw.r) :
         /\ o.ok
         /\ nw' = NwStep(pdenl, nw, o.e)
    /\ UNCHANGED <<pc, driverVars, gs, newton, acc, rhs>>

\* solve throws std::runtime_error.
NWTsolveThrow ==
    /\ pc = "NWTsolve"
    /\ NwCond(nw)
    /\ \E o \in solve(submat(Jacobian(pdenl, nw), nw.freeNode), nw.r) : ~o.ok
    /\ pc' = "threw"
    /\ UNCHANGED <<driverVars, gs, nw, newton, acc, rhs>>

\* Line 175: return u, which the caller assigns to its u (line 82).
NWTsolveReturn ==
    /\ pc = "NWTsolve"
    /\ ~NwCond(nw)
    /\ u' = nw.u
    /\ pc' = "idle"
    /\ UNCHANGED <<armaChecks, fun, mesh, pde, bdfun, pdenl, ctorLocals, gs, nw,
                   newton, acc, rhs>>

(***************************************************************************)
(* calcRHS (lines 94-112), stepped: the midpoints, the three vectors to    *)
(* accumulate, their concatenation and the call of accumArray.             *)
(***************************************************************************)
\* Lines 98-100.
Midpoints(node, el) ==
    [mid1 |-> halfSum(rows(node, col(el, 1)), rows(node, col(el, 2))),
     mid2 |-> halfSum(rows(node, col(el, 2)), rows(node, col(el, 0))),
     mid3 |-> halfSum(rows(node, col(el, 0)), rows(node, col(el, 1)))]

\* A broken choice of midpoints: each vertex gets the edge opposite to it
\* in place of one of the two edges that meet at it.
ContributionsOpposite(kind, area, m) ==
    [bt1 |-> weighted(area, evalF(kind, m.mid1), evalF(kind, m.mid3)),
     bt2 |-> weighted(area, evalF(kind, m.mid2), evalF(kind, m.mid1)),
     bt3 |-> weighted(area, evalF(kind, m.mid3), evalF(kind, m.mid2))]

\* Lines 102-104.
Contributions(kind, area, m) ==
    [bt1 |-> weighted(area, evalF(kind, m.mid2), evalF(kind, m.mid3)),
     bt2 |-> weighted(area, evalF(kind, m.mid3), evalF(kind, m.mid1)),
     bt3 |-> weighted(area, evalF(kind, m.mid1), evalF(kind, m.mid2))]

\* Lines 106-107.
Joined(bt) == (bt.bt1 \o bt.bt2) \o bt.bt3

\* calcRHS as one expression.
calcRHS(msh, kind) ==
    accumArray(vectorise(msh.elem),
               Joined(Contributions(kind, msh.area, Midpoints(msh.node, msh.elem))),
               Len(msh.node))

CalcRHSMid ==
    /\ pc = "calcRHS"
    /\ rhs' = [rhs EXCEPT !.mid = Midpoints(mesh.node, mesh.elem)]
    /\ pc' = "calcRHSbt"
    /\ UNCHANGED <<driverVars, sweepVars, newton, acc>>

CalcRHSContrib ==
    /\ pc = "calcRHSbt"
    /\ rhs' = [rhs EXCEPT !.bt = Contributions(pde, mesh.area, rhs.mid)]
    /\ pc' = "calcRHSjoin"
    /\ UNCHANGED <<driverVars, sweepVars, newton, acc>>

\* Lines 106-110, up to the entry of accumArray.
CalcRHSCall ==
    /\ pc = "calcRHSjoin"
    /\ LET bts == Joined(rhs.bt)
           elemv == vectorise(mesh.elem)
       IN  /\ rhs' = [rhs EXCEPT !.bts = bts, !.elemv = elemv]
           /\ acc' = AccumEntry(elemv, bts, Len(mesh.node))
    /\ pc' = "accumArray"
    /\ UNCHANGED <<driverVars, sweepVars, newton>>

\* Lines 110-111: ret is what accumArray returned.  Called from the
\* constructor (line 53), the result becomes b.
CalcRHSReturn ==
    /\ pc = "calcRHSret"
    /\ rhs' = [rhs EXCEPT !.ret = acc.S]
    /\ IF rhs.caller = "ctor"
       THEN pc' = "ctorBoundary" /\ b' = acc.S
       ELSE pc' = "calcRHSDone" /\ b' = b
    /\ UNCHANGED <<members, fu, residual, r, tol, err, k, sweepVars, newton, acc>>

\* The locals of a call of calcRHS.
RhsEntry(caller, msh) ==
    [caller |-> caller, mid |-> None, bt |-> None, bts |-> None, elemv |-> None,
     ret |-> None, mesh0 |-> msh]

SourceKinds == {"FunZeros", "FunOnes", "FunSC"}

\* calcRHS called on an object with any mesh and any source evaluator.
RhsInit ==
    /\ pc = "calcRHS"
    /\ armaChecks = TRUE
    /\ mesh \in Meshes
    /\ pde \in SourceKinds
    /\ rhs = RhsEntry("none", mesh)
    /\ fun = None /\ bdfun = None /\ pdenl = None
    /\ u = None /\ b = None /\ fu = None /\ residual = None /\ r = None
    /\ tol = None /\ err = None /\ k = 0
    /\ gs = None /\ nw = None /\ newton = None /\ acc = None

RhsNext ==
    \/ CalcRHSMid
    \/ CalcRHSContrib
    \/ CalcRHSCall
    \/ AccumIter
    \/ AccumReturn
    \/ CalcRHSReturn

RhsSpec == RhsInit /\ [][RhsNext]_vars

(***************************************************************************)
(* C10.  Entry n of the load vector is the sum, over every element t and   *)
(* local vertex c with elem(t, c) = n, of area(t) times the sum of the     *)
(* source at the midpoints of the two edges of t that meet at vertex c,    *)
(* over 6; a midpoint is the average of the edge's two end points; the     *)
(* contributions are taken vertex column by vertex column, as the          *)
(* connectivity table is flattened; the mesh is left as it was.            *)
(***************************************************************************)
\* The midpoint of the edge between the local vertices c1 and c2 of element t.
EdgeMid(msh, t, c1, c2) ==
    LET p == At(msh.node, msh.elem[t][c1 + 1])
        q == At(msh.node, msh.elem[t][c2 + 1])
    IN  <<Div(Add(p[1], q[1]), 2), Div(Add(p[2], q[2]), 2)>>

\* What local vertex c of element t receives.
VertexShare(msh, kind, t, c) ==
    LET c1 == (c + 1) % 3
        c2 == (c + 2) % 3
        atEdge1 == EvalPoint(kind, EdgeMid(msh, t, c, c1))
        atEdge2 == EvalPoint(kind, EdgeMid(msh, t, c2, c))
    IN  Div(Mul(msh.area[t], Add(atEdge2, atEdge1)), 6)

\* The sum of the shares that land on node n, vertex column c from element t on.
RECURSIVE NodeLoad(_, _, _, _, _, _)
NodeLoad(msh, kind, n, c, t, sofar) ==
    IF c > 2 THEN sofar
    ELSE IF t > Len(msh.elem) THEN NodeLoad(msh, kind, n, c + 1, 1, sofar)
    ELSE NodeLoad(msh, kind, n, c, t + 1,
                  IF msh.elem[t][c + 1] = n
                  THEN Add(sofar, VertexShare(msh, kind, t, c)) ELSE sofar)

C10_LoadVector ==
    pc = "calcRHSDone" =>
        /\ Len(rhs.ret) = Len(mesh.node)
        /\ \A n \in 0..(Len(mesh.node) - 1) :
             At(rhs.ret, n) = NodeLoad(mesh, pde, n, 0, 1, 0)
        /\ rhs.elemv = vectorise(mesh.elem)
        /\ Len(rhs.bts) = Len(rhs.elemv)
        /\ mesh = rhs.mesh0

\* A finished assembly on two elements that share nodes, with a source that
\* differs from midpoint to midpoint and a load that differs from node to node.
C10_Witness ==
    /\ pc = "calcRHSDone"
    /\ Len(mesh.elem) = 2
    /\ pde = "FunSC"
    /\ \E n, m \in 0..(Len(mesh.node) - 1) :
          /\ At(rhs.ret, n) # At(rhs.ret, m)
          /\ IsFinite(At(rhs.ret, n)) /\ IsFinite(At(rhs.ret, m))
          /\ At(rhs.ret, n) # 0 /\ At(rhs.ret, m) # 0

(***************************************************************************)
(* The constructor FiniteElemNL(meshprops, fun) (lines 39-87)              *)
(***************************************************************************)
MaxOuter == 10

\* v.rows(idx) = vals
Assigned(v, idx, vals) ==
    [j \in 1..Len(v) |->
        IF \E q \in 1..Len(idx) : idx[q] = j - 1
        THEN vals[CHOOSE q \in 1..Len(idx) : idx[q] = j - 1]
        ELSE v[j]]

\* A broken choice: the source evaluator is looked up by the name in fun.
SourceByName(name) == IF name \in {"FunZeros", "FunOnes", "FunSC"} THEN name ELSE "FunZeros"

\* Line 44: the source evaluator, whatever the name in fun.
SourceFor(name) == "FunZeros"

\* Lines 41-51: the mesh, the evaluators, the zero solution vector, and the
\* call of calcRHS (line 53).  mesh holds msh, the mesh that MeshMG builds
\* from meshprops and refines, from the start.
CtorSelect ==
    /\ pc = "ctor"
    /\ pde' = SourceFor(fun)
    /\ bdfun' = "FunBoltz"
    /\ pdenl' = "FunSCNL"
    /\ u' = zeros(Len(mesh.node))
    /\ rhs' = RhsEntry("ctor", mesh)
    /\ pc' = "calcRHS"
    /\ UNCHANGED <<armaChecks, fun, mesh, ctorLocals, gs, nw, newton, acc>>

\* Lines 54-70: the boundary values, the first residual and the tolerance.
CtorBoundary ==
    /\ pc = "ctorBoundary"
    /\ LET node == mesh.node
           u1 == Assigned(u, mesh.bdNode, evalF(bdfun, rows(node, mesh.bdNode)))
           A == mesh.stiffness
           Mv == diag(mesh.mass)
           fu1 == evalFv(pdenl, u1)
           res == residualOf(A, u1, Mv, fu1, b)
           rr == rows(res, mesh.freeNode)
           tl == timesNorm(Tol1em6, norm(rr))
       IN  /\ u' = u1
           /\ fu' = fu1
           /\ residual' = res
           /\ r' = rr
           /\ k' = 0
           /\ tol' = tl
           /\ err' = twice(tl)
    /\ pc' = "while"
    /\ UNCHANGED <<armaChecks, fun, mesh, pde, bdfun, pdenl, b, gs, nw, newton,
                   acc, rhs>>

\* Line 71: the test of the outer loop.
OuterCond == k < MaxOuter /\ GtScaled(err, tol)

\* Lines 71-72: the test holds; GSsolve is called.
LoopEnter ==
    /\ pc = "while"
    /\ OuterCond
    /\ gs' = GsEntry("GSsolve", "ctor", b, u, diag(mesh.mass), mesh.stiffness,
                     mesh.freeNode)
    /\ pc' = "GSsolve"
    /\ UNCHANGED <<driverVars, nw, newton, acc, rhs>>

\* Lines 71 and 81-86: the test fails; the solution is printed and the
\* evaluators are deleted.
LoopExit ==
    /\ pc = "while"
    /\ ~OuterCond
    /\ pde' = "deleted" /\ bdfun' = "deleted" /\ pdenl' = "deleted"
    /\ pc' = "done"
    /\ UNCHANGED <<armaChecks, fun, mesh, u, ctorLocals, gs, nw, newton, acc, rhs>>

\* Line 73: GSsolveb is called; also a call of it on its own.
CallGSsolveb ==
    /\ pc \in {"ctorLine73", "idle"}
    /\ gs' = GsEntry("GSsolveb", IF pc = "idle" THEN "none" ELSE "ctor", b, u,
                     diag(mesh.mass), mesh.stiffness, mesh.freeNode)
    /\ pc' = "GSsolveb"
    /\ UNCHANGED <<driverVars, nw, newton, acc, rhs>>

\* Lines 74-79: the residual after the two sweeps, with fu of line 64.
\* GSsolveb never returns, so this is never enabled; it is no part of Next.
CtorResidual ==
    /\ pc = "ctorLine74"
    /\ LET res == residualOf(mesh.stiffness, u, diag(mesh.mass), fu, b)
           rr == rows(res, mesh.freeNode)
       IN  /\ residual' = res
           /\ r' = rr
           /\ err' = asErr(norm(rr))
    /\ k' = k + 1
    /\ pc' = "while"
    /\ UNCHANGED <<members, b, fu, tol, gs, nw, newton, acc, rhs>>

FunNames == {"FunZeros", "FunOnes", "FunSC", "nosuchfunction"}

Init ==
    /\ pc = "ctor"
    /\ armaChecks \in BOOLEAN
    /\ fun \in FunNames
    /\ mesh \in Meshes
    /\ pde = None /\ bdfun = None /\ pdenl = None
    /\ u = None /\ b = None /\ fu = None /\ residual = None /\ r = None
    /\ tol = None /\ err = None /\ k = 0
    /\ gs = None /\ nw = None /\ newton = None /\ acc = None /\ rhs = None

Next ==
    \/ CtorSelect
    \/ CalcRHSMid
    \/ CalcRHSContrib
    \/ CalcRHSCall
    \/ AccumIter
    \/ AccumReturn
    \/ CalcRHSReturn
    \/ CtorBoundary
    \/ LoopEnter
    \/ LoopExit
    \/ GSsolveIter
    \/ GSsolveReturn
    \/ CallGSsolveb
    \/ GSsolvebIter
    \/ SpanThrow

Spec == Init /\ [][Next]_vars

\* The program runs on while it can: it is one thread that nothing suspends.
FairSpec == Spec /\ WF_vars(Next)

\* Next with the two steps that follow a return of GSsolveb.
FullNext == Next \/ GSsolvebReturn \/ CtorResidual

FullSpec == Init /\ [][FullNext]_vars

(***************************************************************************)
(* The solvers called on their own, in any order, on a solution vector     *)
(* whose boundary entries hold the boundary evaluator's values.            *)
(***************************************************************************)
Loads(n) == {[j \in 1..n |-> 0], [j \in 1..n |-> IF j = 2 THEN 2 ELSE -1]}

SolverInit ==
    /\ pc = "idle"
    /\ armaChecks \in BOOLEAN
    /\ mesh \in Meshes
    /\ mesh.area = <<2>> \/ mesh.area = <<2, 2>>
    /\ bdfun = "FunBoltz"
    /\ pdenl = "FunSCNL"
    /\ u = Assigned(zeros(Len(mesh.node)), mesh.bdNode,
                     evalF(bdfun, rows(mesh.node, mesh.bdNode)))
    /\ b \in Loads(Len(mesh.node))
    /\ fun = None /\ pde = None /\ fu = None /\ residual = None /\ r = None
    /\ tol = None /\ err = None /\ k = 0
    /\ gs = None /\ nw = None /\ newton = None /\ acc = None /\ rhs = None

CallGSsolve ==
    /\ pc = "idle"
    /\ gs' = GsEntry("GSsolve", "none", b, u, diag(mesh.mass), mesh.stiffness,
                     mesh.freeNode)
    /\ pc' = "GSsolve"
    /\ UNCHANGED <<driverVars, nw, newton, acc, rhs>>

\* As line 82 would: NWTsolve(b, u, maxitr, Mv, A, 1e-6, mesh.freeNode).
CallNWTsolve ==
    /\ pc = "idle"
    /\ \E maxitr \in 1..MaxItr :
         nw' = NwEntry(pdenl, b, u, maxitr, diag(mesh.mass), mesh.stiffness,
                       Tol1em6, mesh.freeNode)
    /\ pc' = "NWTsolve"
    /\ UNCHANGED <<driverVars, gs, newton, acc, rhs>>

SolverNext ==
    \/ CallGSsolve
    \/ GSsolveIter
    \/ GSsolveReturn
    \/ CallGSsolveb
    \/ GSsolvebIter
    \/ SpanThrow
    \/ CallNWTsolve
    \/ NWTsolveIter
    \/ NWTsolveThrow
    \/ NWTsolveReturn

SolverSpec == SolverInit /\ [][SolverNext]_vars

(***************************************************************************)
(* C1.  The constructor terminates: at most 10 outer iterations, each      *)
(* sweep visits finitely many indices, and the state in which the solution *)
(* has been printed is always reached in the end.                          *)
(***************************************************************************)
C1_DriverTerminates == <>(pc = "done")

(***************************************************************************)
(* C4.  The constructor picks the evaluators by the name in fun: a name    *)
(* it knows selects the evaluator of that name, and a name it does not     *)
(* know makes construction fail with UnknownFunctionName before any        *)
(* assembly or sweep.  The names known are taken to be those of the source *)
(* evaluators.                                                             *)
(***************************************************************************)
RecognizedNames == {"FunZeros", "FunOnes", "FunSC"}

C4_SelectedByName ==
    pc # "ctor" =>
        IF fun \in RecognizedNames THEN pde \in {fun, "deleted"}
        ELSE pc = "UnknownFunctionName"

(***************************************************************************)
(* C5.  Every outer iteration ends with the comparison of the residual     *)
(* A u + M (.) f(u) - b at the u that the two sweeps left, f evaluated at  *)
(* that u: an outer iteration that starts reaches the loop test again with *)
(* that residual.                                                          *)
(***************************************************************************)
C5_ResidualAtCurrentU ==
    (pc = "GSsolve") ~>
        (/\ pc = "while"
         /\ k > 0
         /\ residual = residualOf(mesh.stiffness, u, diag(mesh.mass),
                                  evalFv(pdenl, u), b))

(***************************************************************************)
(* C2.  Once the boundary entries of u hold the boundary evaluator's       *)
(* values, they hold them after any sequence of forward sweeps, backward   *)
(* sweeps and global Newton corrections, in the caller's u and in the u    *)
(* that a running solver works on; a sweep updates free indices only.      *)
(***************************************************************************)
BoundaryHeld(v) ==
    \A q \in 1..Len(mesh.bdNode) :
        At(v, mesh.bdNode[q]) = EvalPoint(bdfun, At(mesh.node, mesh.bdNode[q]))

C2_BoundaryInvariant ==
    /\ BoundaryHeld(u)
    /\ pc \in {"GSsolve", "GSsolveb"} =>
          /\ BoundaryHeld(gs.u)
          /\ \A j \in 0..(gs.Nu - 1) :
                gs.count[j + 1] > 0 => j \in Range(mesh.freeNode)
    /\ pc = "NWTsolve" => BoundaryHeld(nw.u)

\* A global Newton correction has changed u, after a forward sweep that
\* updated a node, on a mesh with a boundary node whose value is not 0.
C2_Witness ==
    /\ pc = "NWTsolve"
    /\ nw.k >= 1
    /\ nw.u # u
    /\ DOMAIN gs # {}
    /\ gs.done /\ gs.updated # <<>>
    /\ \E q \in 1..Len(mesh.bdNode) : At(u, mesh.bdNode[q]) # 0

(***************************************************************************)
(* C6.  In one forward sweep and in one backward sweep every index of the  *)
(* free-node set, 0 and N-1 included, is updated exactly once, in          *)
(* increasing order forward and in decreasing order backward.              *)
(***************************************************************************)
Increasing(v) == \A p, q \in 1..Len(v) : p < q => v[p] < v[q]
Decreasing(v) == \A p, q \in 1..Len(v) : p < q => v[p] > v[q]

C6_EveryFreeNodeOnce ==
    pc \in {"GSsolve", "GSsolveb", "idle"} /\ DOMAIN gs # {} =>
        /\ \A j \in 1..gs.Nu : gs.count[j] <= 1
        /\ gs.op = "GSsolve" /\ gs.done =>
              Range(gs.updated) = Range(gs.freeNode) /\ Increasing(gs.updated)
        /\ gs.op = "GSsolveb" /\ gs.i > gs.Nu - 1 =>
              Range(gs.updated) = Range(gs.freeNode) /\ Decreasing(gs.updated)

(***************************************************************************)
(* C7.  At every free index i that a sweep visits, forward or backward,    *)
(* the off-diagonal contribution is the sum over all j # i of              *)
(* A(i,j) * u(j): every column but i once, column i not at all.            *)
(***************************************************************************)
RECURSIVE OffDiagonal(_, _, _, _)
OffDiagonal(row, v, at, j) ==
    IF j = 0 THEN 0
    ELSE OffDiagonal(row, v, at, j - 1) + (IF j - 1 = at THEN 0 ELSE row[j] * v[j])

C7_OffDiagonal ==
    pc \in {"GSsolve", "GSsolveb"} /\ gs.at >= 0 /\ IsFinite(gs.currA) =>
        gs.currA = OffDiagonal(At(gs.A, gs.at), gs.u, gs.at, gs.Nu)

(***************************************************************************)
(* C8.  The scalar problem of a free index i has the parameters A(i,i),    *)
(* M(i) and a constant term in which the off-diagonal contribution and     *)
(* b(i) appear as their difference (with either sign of the whole).        *)
(***************************************************************************)
C8_ScalarProblem ==
    pc \in {"GSsolve", "GSsolveb"} /\ gs.at >= 0 =>
        /\ gs.pars[2] = At(At(gs.A, gs.at), gs.at)
        /\ gs.pars[3] = At(gs.M, gs.at)
        /\ gs.pars[1] = gs.ci
        /\ gs.ci \in {Sub(gs.currA, At(gs.b, gs.at)), Sub(At(gs.b, gs.at), gs.currA)}

====
